---- MODULE Spec2Model ----
(***************************************************************************)
(* Model of the parsing front-end of blackfriday (src/markdown.go):        *)
(* Markdown, firstPass, secondPass, isReference and expandTabs.            *)
(*                                                                         *)
(* A byte is a one-element string ("a", "\n", ...); the two bytes of a     *)
(* two-byte UTF-8 character are written "0xC3" and "0xA9".  A []byte is a  *)
(* sequence of bytes.  Indices are the code's (0-based): At(data, i) is    *)
(* data[i], Slice(data, a, b) is data[a:b].                                *)
(***************************************************************************)
EXTENDS Integers, Sequences, FiniteSets, TLC

VARIABLES
    pc,       \* position of the running call
    mk,       \* the *Renderer handed to Markdown (nil or its document slots)
    input,    \* the input []byte of the call
    flags,    \* rndr.flags: the set of extensions that are switched on
    refs,     \* rndr.refs: map from lower-cased id to reference{link, title}
    nesting,  \* rndr.nesting
    beg,      \* firstPass: beg
    end,      \* firstPass: end
    out,      \* firstPass: out (bytes.Buffer); expandTabs: *out
    output,   \* secondPass: output (bytes.Buffer), as the list of its writers
    defs,     \* history: the definitions isReference accepted, in call order
    moved     \* history: the block parser has changed rndr.nesting

vars == <<pc, mk, input, flags, refs, nesting, beg, end, out, output, defs,
          moved>>

----------------------------------------------------------------------------
(* Bounds of the model.                                                    *)

MaxTokens == 4
MaxRefTokens == 5
MaxLine == 5
MaxDocTokens == 2
MaxUnderflow == 2

----------------------------------------------------------------------------
(* Program constants.                                                      *)

TAB_SIZE_DEFAULT == 4
TAB_SIZE_EIGHT == 8
maxNesting == 16

----------------------------------------------------------------------------
(* []byte helpers.                                                         *)

At(data, i) == data[i + 1]

Slice(data, a, b) == SubSeq(data, a + 1, b)

Range(s) == {s[k] : k \in DOMAIN s}

RECURSIVE Flatten(_)
Flatten(ts) == IF ts = <<>> THEN <<>> ELSE Head(ts) \o Flatten(Tail(ts))

\* for i < len(data) && data[i] in set { i++ }
RECURSIVE skipIn(_, _, _)
skipIn(data, i, set) ==
    IF i < Len(data) /\ At(data, i) \in set THEN skipIn(data, i + 1, set) ELSE i

\* for i < len(data) && data[i] not in set { i++ }
RECURSIVE skipTo(_, _, _)
skipTo(data, i, set) ==
    IF i < Len(data) /\ At(data, i) \notin set THEN skipTo(data, i + 1, set) ELSE i

\* for i > low && data[i] in set { i-- }
RECURSIVE stepBack(_, _, _, _)
stepBack(data, i, low, set) ==
    IF i > low /\ At(data, i) \in set THEN stepBack(data, i - 1, low, set) ELSE i

\* for i < 3 && data[i] == ' ' { i++ }   (the caller has checked len(data) >= 4)
RECURSIVE leadingSpaces(_, _)
leadingSpaces(data, i) ==
    IF i < 3 /\ At(data, i) = " " THEN leadingSpaces(data, i + 1) ELSE i

\* bytes.ToLower on the letters of the model's alphabet
toLowerByte(c) ==
    CASE c = "A" -> "a"
      [] c = "B" -> "b"
      [] OTHER -> c

ToLower(s) == [k \in DOMAIN s |-> toLowerByte(s[k])]

----------------------------------------------------------------------------
(* isReference                                                             *)

\* What a call of isReference did: the value returned (ret), whether an index
\* expression ran out of range (panic), whether a reference was stored (ok),
\* the id, link and title stored, and of the title: where its span starts
\* (titleOffset), the delimiter that opened it (open) and the one the
\* step-back took for its end (close); "" where there is none.
NoRef == [ret |-> 0, panic |-> FALSE, ok |-> FALSE,
          id |-> <<>>, link |-> <<>>, title |-> <<>>,
          titleOffset |-> 0, open |-> "", close |-> ""]

IndexPanic == [ret |-> 0, panic |-> TRUE, ok |-> FALSE,
               id |-> <<>>, link |-> <<>>, title |-> <<>>,
               titleOffset |-> 0, open |-> "", close |-> ""]

\* optional title: any non-newline sequence enclosed in '"() alone on its
\* line; then "a valid ref has been found", or lineEnd == 0.  i is the
\* position after the spacer that may follow the end of the link line.
refTitle(data, idOffset, idEnd, linkOffset, linkEnd, lineEnd, i) ==
    LET n == Len(data)
        hasTitle == i + 1 < n /\ At(data, i) \in {"'", "\"", "("}
        titleOffset == i + 1
        eol == skipTo(data, titleOffset, {"\n", "\r"})
        titleEnd == IF eol + 1 < n /\ At(data, eol) = "\n" /\ At(data, eol + 1) = "\r"
                    THEN eol + 1 ELSE eol
        back == stepBack(data, eol - 1, titleOffset, {" ", "\t"})
        closed == back > titleOffset /\ At(data, back) \in {"'", "\"", ")"}
    IN
    IF ~hasTitle
    THEN IF lineEnd = 0 THEN NoRef
         ELSE [ret |-> lineEnd, panic |-> FALSE, ok |-> TRUE,
               id |-> Slice(data, idOffset, idEnd),
               link |-> Slice(data, linkOffset, linkEnd),
               title |-> <<>>,
               titleOffset |-> 0, open |-> "", close |-> ""]
    ELSE IF closed
    THEN [ret |-> titleEnd, panic |-> FALSE, ok |-> TRUE,
          id |-> Slice(data, idOffset, idEnd),
          link |-> Slice(data, linkOffset, linkEnd),
          title |-> Slice(data, titleOffset, back),
          titleOffset |-> titleOffset, open |-> At(data, i),
          close |-> At(data, back)]
    ELSE IF lineEnd = 0 THEN NoRef
    ELSE [ret |-> lineEnd, panic |-> FALSE, ok |-> TRUE,
          id |-> Slice(data, idOffset, idEnd),
          link |-> Slice(data, linkOffset, linkEnd),
          title |-> Slice(data, titleOffset, titleEnd),
          titleOffset |-> titleOffset, open |-> At(data, i), close |-> ""]

\* compute end-of-line, and the optional (space|tab)* spacer after a newline
refLineEnd(data, idOffset, idEnd, linkOffset, linkEnd, i) ==
    LET n == Len(data)
        lineEnd0 == IF i >= n \/ At(data, i) \in {"\r", "\n"} THEN i ELSE 0
        lineEnd == IF i + 1 < n /\ At(data, i) = "\r" /\ At(data, i + 1) = "\n"
                   THEN lineEnd0 + 1 ELSE lineEnd0
    IN
    refTitle(data, idOffset, idEnd, linkOffset, linkEnd, lineEnd,
             IF lineEnd > 0 THEN skipIn(data, lineEnd + 1, {" ", "\t"}) ELSE i)

\* the angle brackets of the link, and the optional spacer after the link:
\* (space | tab)* (newline | '\'' | '"' | '(' )
refLinkEnd(data, idOffset, idEnd, linkOffset, linkEnd) ==
    LET n == Len(data)
        i == skipIn(data, linkEnd, {" ", "\t"})
    IN
    \* data[linkOffset] with linkOffset == len(data): index out of range
    IF linkOffset >= n THEN IndexPanic
    ELSE IF i < n /\ At(data, i) \notin {"\n", "\r", "'", "\"", "("} THEN NoRef
    ELSE IF At(data, linkOffset) = "<" /\ At(data, linkEnd - 1) = ">"
         THEN refLineEnd(data, idOffset, idEnd, linkOffset + 1, linkEnd - 1, i)
         ELSE refLineEnd(data, idOffset, idEnd, linkOffset, linkEnd, i)

\* link: whitespace-free sequence, optionally between angle brackets
refLink(data, idOffset, idEnd, i) ==
    IF i >= Len(data) THEN NoRef
    ELSE IF At(data, i) = "<"
         THEN refLinkEnd(data, idOffset, idEnd, i + 1,
                         skipTo(data, i + 1, {" ", "\t", "\n", "\r"}))
         ELSE refLinkEnd(data, idOffset, idEnd, i,
                         skipTo(data, i, {" ", "\t", "\n", "\r"}))

\* newline?  (a "\r\n" pair is one newline)
skipNewline(data, i) ==
    IF i < Len(data) /\ At(data, i) \in {"\n", "\r"}
    THEN IF i + 1 < Len(data) /\ At(data, i + 1) = "\n" /\ At(data, i) = "\r"
         THEN i + 2 ELSE i + 1
    ELSE i

\* spacer: colon (space | tab)* newline? (space | tab)*
refSpacer(data, idOffset, idEnd) ==
    IF idEnd >= Len(data) \/ At(data, idEnd) # "]" THEN NoRef
    ELSE IF idEnd + 1 >= Len(data) \/ At(data, idEnd + 1) # ":" THEN NoRef
    ELSE refLink(data, idOffset, idEnd,
                 skipIn(data,
                        skipNewline(data, skipIn(data, idEnd + 2, {" ", "\t"})),
                        {" ", "\t"}))

\* id part: anything but a newline between brackets
refId(data, i) ==
    IF At(data, i) # "[" THEN NoRef
    ELSE refSpacer(data, i + 1, skipTo(data, i + 1, {"\n", "\r", "]"}))

\* the parse of isReference: the value it returns, whether an index expression
\* ran out of range, and the id, link and title it found
parseReference(data) ==
    IF Len(data) < 4 THEN NoRef ELSE refId(data, leadingSpaces(data, 0))

\* refsPut with a fault: an id that is in the table keeps its first reference
refsPutKeepsFirst(rs, id, link, title) ==
    [k \in DOMAIN rs \cup {id} |->
        IF k \in DOMAIN rs THEN rs[k] ELSE [link |-> link, title |-> title]]

\* rndr.refs[id] = &reference{link, title}
refsPut(rs, id, link, title) ==
    [k \in DOMAIN rs \cup {id} |->
        IF k = id THEN [link |-> link, title |-> title] ELSE rs[k]]

\* isReference(rndr, data) with rndr != nil: the value returned and rndr.refs
isReference(rs, data) ==
    LET p == parseReference(data) IN
    [ret |-> p.ret, panic |-> p.panic, ok |-> p.ok,
     id |-> p.id, link |-> p.link, title |-> p.title,
     titleOffset |-> p.titleOffset, open |-> p.open, close |-> p.close,
     refs |-> IF p.ok THEN refsPut(rs, ToLower(p.id), p.link, p.title) ELSE rs]

----------------------------------------------------------------------------
(* expandTabs                                                              *)

\* the scan for the common cases: the number of leading tabs, and whether a
\* tab follows a byte that is not a tab
RECURSIVE tabPrefix(_, _, _)
tabPrefix(line, i, prefix) ==
    IF i >= Len(line) THEN [prefix |-> prefix, slowcase |-> FALSE]
    ELSE IF At(line, i) = "\t"
         THEN IF prefix = i THEN tabPrefix(line, i + 1, prefix + 1)
              ELSE [prefix |-> prefix, slowcase |-> TRUE]
         ELSE tabPrefix(line, i + 1, prefix)

spaces(n) == [k \in 1..n |-> " "]

\* utf8.DecodeRune(line[i:]): the size of the character at i.  A lead byte
\* followed by its continuation byte is one character of two bytes; any
\* other byte, a stray lead or continuation byte included, has size 1.
decodeRuneSize(line, i) ==
    IF At(line, i) = "0xC3" /\ i + 1 < Len(line) /\ At(line, i + 1) = "0xA9"
    THEN 2 ELSE 1

\* for i < len(line) && line[i] != '\t' { i += size; column++ }
RECURSIVE runOfRunes(_, _, _)
runOfRunes(line, i, column) ==
    IF i < Len(line) /\ At(line, i) # "\t"
    THEN runOfRunes(line, i + decodeRuneSize(line, i), column + 1)
    ELSE [i |-> i, column |-> column]

\* for { out.WriteByte(' '); column++; if column%tabSize == 0 { break } }
RECURSIVE tabStop(_, _)
tabStop(column, tabSize) ==
    IF (column + 1) % tabSize = 0 THEN <<" ">>
    ELSE <<" ">> \o tabStop(column + 1, tabSize)

\* the slow case, from position i at column column: the bytes written
RECURSIVE expandSlow(_, _, _, _)
expandSlow(line, i, column, tabSize) ==
    IF i >= Len(line) THEN <<>>
    ELSE LET r == runOfRunes(line, i, column)
             pad == tabStop(r.column, tabSize)
         IN Slice(line, i, r.i)
            \o (IF r.i >= Len(line) THEN <<>>
                ELSE pad \o expandSlow(line, r.i + 1, r.column + Len(pad), tabSize))

\* expandFast with a fault: the prefix is expanded with the default tab size
expandFastDefaultSize(line, prefix, tabSize) ==
    spaces(prefix * TAB_SIZE_DEFAULT) \o Slice(line, prefix, Len(line))

\* the fast case: prefix*tabSize spaces, then line[prefix:]
expandFast(line, prefix, tabSize) ==
    spaces(prefix * tabSize) \o Slice(line, prefix, Len(line))

\* expandTabs(out, line, tabSize): the buffer after the call
expandTabs(buf, line, tabSize) ==
    LET p == tabPrefix(line, 0, 0) IN
    buf \o (IF ~p.slowcase THEN expandFast(line, p.prefix, tabSize)
            ELSE expandSlow(line, 0, 0, tabSize))

----------------------------------------------------------------------------
(* firstPass                                                               *)

tabSizeOf(fl) ==
    IF "EXTENSION_TAB_SIZE_EIGHT" \in fl THEN TAB_SIZE_EIGHT ELSE TAB_SIZE_DEFAULT

\* skipTerminator with a fault: one byte of the terminator is consumed
skipTerminatorOneByte(data, e) ==
    IF e < Len(data) /\ At(data, e) \in {"\r", "\n"} THEN e + 1 ELSE e

\* if input[end] == '\r' { end++ }; if input[end] == '\n' { end++ }
skipTerminator(data, e) ==
    LET e1 == IF e < Len(data) /\ At(data, e) = "\r" THEN e + 1 ELSE e
    IN IF e1 < Len(data) /\ At(data, e1) = "\n" THEN e1 + 1 ELSE e1

\* the line body, if present, and the '\n' that always follows it
writeLine(buf, line, fl) ==
    (IF Len(line) > 0
     THEN IF "EXTENSION_NO_EXPAND_TABS" \notin fl
          THEN expandTabs(buf, line, tabSizeOf(fl))
          ELSE buf \o line
     ELSE buf) \o <<"\n">>

\* the history entry of a definition isReference accepted at input[at:]
accepted(at, r) ==
    [at |-> at, ret |-> r.ret, id |-> r.id, link |-> r.link, title |-> r.title,
     titleOffset |-> r.titleOffset, open |-> r.open, close |-> r.close]

\* one iteration of the scan loop in which isReference accepts a definition
FirstPassReference ==
    /\ pc = "firstPass"
    /\ beg < Len(input)
    /\ LET r == isReference(refs, Slice(input, beg, Len(input))) IN
        /\ ~r.panic
        /\ r.ret > 0
        /\ end' = r.ret
        /\ beg' = beg + r.ret
        /\ refs' = r.refs
        /\ defs' = Append(defs, accepted(beg, r))
    /\ UNCHANGED <<pc, mk, input, flags, nesting, out, output, moved>>

\* one iteration of the scan loop that copies a line
FirstPassLine ==
    /\ pc = "firstPass"
    /\ beg < Len(input)
    /\ LET r == isReference(refs, Slice(input, beg, Len(input)))
           e == skipTo(input, beg, {"\n", "\r"})
       IN
        /\ ~r.panic
        /\ r.ret = 0
        /\ out' = writeLine(out, Slice(input, beg, e), flags)
        /\ end' = skipTerminator(input, e)
        /\ beg' = skipTerminator(input, e)
    /\ UNCHANGED <<pc, mk, input, flags, refs, nesting, output, defs, moved>>

\* one iteration of the scan loop in which isReference indexes out of range:
\* the run-time panic unwinds firstPass and Markdown
FirstPassPanic ==
    /\ pc = "firstPass"
    /\ beg < Len(input)
    /\ isReference(refs, Slice(input, beg, Len(input))).panic
    /\ pc' = "panicIndex"
    /\ UNCHANGED <<mk, input, flags, refs, nesting, beg, end, out, output, defs, moved>>

\* the loop ends; firstPass returns out.Bytes() to Markdown
FirstPassReturn ==
    /\ pc = "firstPass"
    /\ beg >= Len(input)
    /\ pc' = "secondPass"
    /\ UNCHANGED <<mk, input, flags, refs, nesting, beg, end, out, output, defs, moved>>

----------------------------------------------------------------------------
(* Markdown and secondPass                                                 *)

\* the renderers a caller may hand over: nil, or one with or without the
\* DocumentHeader and DocumentFooter slots
Renderers ==
    {[nil |-> TRUE, header |-> FALSE, footer |-> FALSE]}
    \cup {[nil |-> FALSE, header |-> h, footer |-> f] : h, f \in BOOLEAN}

FlagSets ==
    {{}, {"EXTENSION_NO_EXPAND_TABS"}, {"EXTENSION_TAB_SIZE_EIGHT"}}

InputsOf(tokens, n) ==
    {Flatten(ts) : ts \in UNION {[1..k -> tokens] : k \in 0..n}}

DocTokens == {<<"[", "a", "]", ":", "<">>, <<"x">>, <<"\n">>}

DocInputs == InputsOf(DocTokens, MaxDocTokens)

\* nestingMismatch with a fault: only a level above zero is a mismatch
nestingMismatchAbove(n) == n > 0

\* if rndr.nesting != 0 { panic(...) }
nestingMismatch(n) == n # 0

\* Markdown(input, renderer, extensions) is called; with a nil renderer it
\* returns nil at once, otherwise it fills in a new render and starts firstPass
Markdown ==
    /\ pc \in {"idle", "returnedNil", "returned", "panicIndex", "panicNesting"}
    /\ \E m \in Renderers, in \in DocInputs, fl \in FlagSets :
        /\ mk' = m
        /\ input' = in
        /\ IF m.nil
           THEN /\ pc' = "returnedNil"
                /\ UNCHANGED <<flags, refs, nesting>>
           ELSE /\ pc' = "firstPass"
                /\ flags' = fl
                /\ refs' = <<>>
                /\ nesting' = 0
    /\ beg' = 0
    /\ end' = 0
    /\ out' = <<>>
    /\ output' = <<>>
    /\ defs' = <<>>
    /\ moved' = FALSE

\* secondPass starts: the DocumentHeader slot, if set, writes to output
DocumentHeader ==
    /\ pc = "secondPass"
    /\ output' = IF mk.header THEN <<"DocumentHeader">> ELSE <<>>
    /\ pc' = "parseBlock"
    /\ UNCHANGED <<mk, input, flags, refs, nesting, beg, end, out, defs, moved>>

\* the block parser goes one level deeper, unless the ceiling is reached
BlockEnter ==
    /\ pc = "parseBlock"
    /\ nesting < maxNesting
    /\ nesting' = nesting + 1
    /\ moved' = TRUE
    /\ UNCHANGED <<pc, mk, input, flags, refs, beg, end, out, output, defs>>

\* the block parser leaves a level (a collaborator may leave once too often)
BlockLeave ==
    /\ pc = "parseBlock"
    /\ nesting > -MaxUnderflow
    /\ nesting' = nesting - 1
    /\ moved' = TRUE
    /\ UNCHANGED <<pc, mk, input, flags, refs, beg, end, out, output, defs>>

\* parseBlock returns
BlockReturn ==
    /\ pc = "parseBlock"
    /\ output' = Append(output, "parseBlock")
    /\ pc' = "footer"
    /\ UNCHANGED <<mk, input, flags, refs, nesting, beg, end, out, defs, moved>>

\* the DocumentFooter slot, if set, writes to output
DocumentFooter ==
    /\ pc = "footer"
    /\ output' = IF mk.footer THEN Append(output, "DocumentFooter") ELSE output
    /\ pc' = "check"
    /\ UNCHANGED <<mk, input, flags, refs, nesting, beg, end, out, defs, moved>>

\* the nesting level did not end at zero: panic
SecondPassPanic ==
    /\ pc = "check"
    /\ nestingMismatch(nesting)
    /\ pc' = "panicNesting"
    /\ UNCHANGED <<mk, input, flags, refs, nesting, beg, end, out, output, defs, moved>>

\* secondPass returns output.Bytes(), and Markdown returns it
SecondPassReturn ==
    /\ pc = "check"
    /\ ~nestingMismatch(nesting)
    /\ pc' = "returned"
    /\ UNCHANGED <<mk, input, flags, refs, nesting, beg, end, out, output, defs, moved>>

----------------------------------------------------------------------------
(* The conversion: calls of Markdown, one after the other.                 *)

Init ==
    /\ pc = "idle"
    /\ mk = [nil |-> TRUE, header |-> FALSE, footer |-> FALSE]
    /\ input = <<>>
    /\ flags = {}
    /\ refs = <<>>
    /\ nesting = 0
    /\ beg = 0
    /\ end = 0
    /\ out = <<>>
    /\ output = <<>>
    /\ defs = <<>>
    /\ moved = FALSE

Next ==
    \/ Markdown
    \/ FirstPassReference
    \/ FirstPassLine
    \/ FirstPassPanic
    \/ FirstPassReturn
    \/ DocumentHeader
    \/ BlockEnter
    \/ BlockLeave
    \/ BlockReturn
    \/ DocumentFooter
    \/ SecondPassPanic
    \/ SecondPassReturn

Spec == Init /\ [][Next]_vars

----------------------------------------------------------------------------
(* firstPass alone, on the inputs built from FirstPassTokens.              *)

FirstPassTokens ==
    {<<"[", "a", "]", ":", "x">>, <<"[", "A", "]", ":", "y">>,
     <<"[", "b", "]", ":", "<">>, <<"x">>, <<" ">>, <<"\t">>, <<"\n">>, <<"\r">>,
     <<"\"", "t", "\"">>}

\* a new render (refs empty, nesting 0) at the entry of the function at
Called(at, inputs, flagsets) ==
    /\ pc = at
    /\ mk = [nil |-> FALSE, header |-> FALSE, footer |-> FALSE]
    /\ input \in inputs
    /\ flags \in flagsets
    /\ refs = <<>>
    /\ nesting = 0
    /\ beg = 0
    /\ end = 0
    /\ out = <<>>
    /\ output = <<>>
    /\ defs = <<>>
    /\ moved = FALSE

InitFirstPass == Called("firstPass", InputsOf(FirstPassTokens, MaxTokens), FlagSets)

NextFirstPass ==
    \/ FirstPassReference
    \/ FirstPassLine
    \/ FirstPassPanic
    \/ FirstPassReturn

SpecFirstPass == InitFirstPass /\ [][NextFirstPass]_vars

----------------------------------------------------------------------------
(* isReference alone, called once on the inputs built from RefTokens.      *)

RefTokens ==
    {<<"[", "a", "]", ":", "x">>, <<"[", "a", "]", ":", "<">>,
     <<"x">>, <<">">>, <<" ">>, <<"\n">>, <<"\r">>,
     <<"'">>, <<"\"">>, <<"(">>, <<")">>}

InitReference == Called("isReference", InputsOf(RefTokens, MaxRefTokens), {{}})

\* isReference(rndr, input) returns
IsReference ==
    /\ pc = "isReference"
    /\ LET r == isReference(refs, input) IN
        /\ ~r.panic
        /\ end' = r.ret
        /\ refs' = r.refs
        /\ defs' = IF r.ok THEN Append(defs, accepted(0, r)) ELSE defs
    /\ pc' = "isReferenceReturned"
    /\ UNCHANGED <<mk, input, flags, nesting, beg, out, output, moved>>

\* isReference(rndr, input) indexes out of range
IsReferencePanic ==
    /\ pc = "isReference"
    /\ isReference(refs, input).panic
    /\ pc' = "panicIndex"
    /\ UNCHANGED <<mk, input, flags, refs, nesting, beg, end, out, output, defs, moved>>

NextReference == IsReference \/ IsReferencePanic

SpecReference == InitReference /\ [][NextReference]_vars

----------------------------------------------------------------------------
(* expandTabs alone, called once on the lines over TabBytes.               *)

TabBytes == {"\t", "x", " ", "0xC3", "0xA9"}

TabLines == UNION {[1..k -> TabBytes] : k \in 0..MaxLine}

InitTabs == Called("expandTabs", TabLines, {{}, {"EXTENSION_TAB_SIZE_EIGHT"}})

\* expandTabs(&out, input, tabSize) with an empty buffer
ExpandTabs ==
    /\ pc = "expandTabs"
    /\ out' = expandTabs(out, input, tabSizeOf(flags))
    /\ pc' = "expanded"
    /\ UNCHANGED <<mk, input, flags, refs, nesting, beg, end, output, defs, moved>>

SpecTabs == InitTabs /\ [][ExpandTabs]_vars

----------------------------------------------------------------------------
(* Helpers of the properties.                                              *)

Closes(open, close) ==
    \/ open = "'" /\ close = "'"
    \/ open = "\"" /\ close = "\""
    \/ open = "(" /\ close = ")"

\* the case folding of a label
Fold(s) == [k \in DOMAIN s |-> IF s[k] = "A" THEN "a" ELSE IF s[k] = "B" THEN "b" ELSE s[k]]

\* a "\r\n" pair starts at offset e of s
CrLfAt(s, e) == e + 2 <= Len(s) /\ s[e + 1] = "\r" /\ s[e + 2] = "\n"

\* the lines of s, each ended by one "\n" (s holds no tab)
RECURSIVE PlainLines(_)
PlainLines(s) ==
    IF s = <<>> THEN <<>>
    ELSE LET e == CHOOSE j \in 0..Len(s) :
                    /\ j = Len(s) \/ s[j + 1] \in {"\n", "\r"}
                    /\ \A k \in 1..j : s[k] \notin {"\n", "\r"}
             t == IF CrLfAt(s, e) THEN e + 2 ELSE IF e < Len(s) THEN e + 1 ELSE e
         IN SubSeq(s, 1, e) \o <<"\n">> \o PlainLines(SubSeq(s, t + 1, Len(s)))

\* the number of "\n" in s
CountLF(s) == Cardinality({k \in DOMAIN s : s[k] = "\n"})

\* the number of logical lines of s: a line ends at a "\r\n" pair, a lone
\* "\r", a lone "\n", or at the end of s when the last line is not empty
LogicalLines(s) ==
    Cardinality({k \in DOMAIN s :
                    \/ s[k] = "\n"
                    \/ s[k] = "\r" /\ (k = Len(s) \/ s[k + 1] # "\n")})
    + (IF s # <<>> /\ s[Len(s)] \notin {"\n", "\r"} THEN 1 ELSE 0)

\* the expansion of line from position i at column col: each tab becomes the
\* spaces up to the next multiple of tabSize, each character is copied
RECURSIVE TabExpansion(_, _, _, _)
TabExpansion(line, i, col, tabSize) ==
    IF i >= Len(line) THEN <<>>
    ELSE IF line[i + 1] = "\t"
    THEN LET n == tabSize - (col % tabSize)
         IN [k \in 1..n |-> " "] \o TabExpansion(line, i + 1, col + n, tabSize)
    ELSE LET two == i + 2 <= Len(line) /\ line[i + 1] = "0xC3" /\ line[i + 2] = "0xA9"
             size == IF two THEN 2 ELSE 1
         IN SubSeq(line, i + 1, i + size) \o TabExpansion(line, i + size, col + 1, tabSize)

\* what follows a definition and its line terminator
RestAfter(d) ==
    LET e == d.at + d.ret
        t == IF CrLfAt(SubSeq(input, e + 1, Len(input)), 0) THEN e + 2
             ELSE IF e < Len(input) /\ input[e + 1] \in {"\n", "\r"} THEN e + 1
             ELSE e
    IN SubSeq(input, t + 1, Len(input))

----------------------------------------------------------------------------
(* Properties.                                                             *)

\* C1: when firstPass has returned from an input that starts with a valid
\* reference definition (the only one of the input) followed by further
\* content, its output holds nothing for the definition, neither a byte of it
\* nor an empty line for its line terminator: the output is exactly the lines
\* of what follows the definition and its terminator.
C1_ReferenceWritesNothing ==
    (/\ pc = "secondPass"
     /\ Len(defs) = 1
     /\ defs[1].at = 0
     /\ RestAfter(defs[1]) # <<>>
     /\ "\t" \notin Range(input))
    => out = PlainLines(RestAfter(defs[1]))

\* C2: when isReference accepts a definition whose target is written between
\* angle brackets ("<", a whitespace-free run, ">"), the stored target is
\* exactly the bytes strictly between the "<" and the ">".
C2_AngleBracketsStripped ==
    LET open == skipIn(input, 4, {" ", "\t"})
        stop == skipTo(input, open, {" ", "\t", "\n", "\r"})
    IN (/\ pc = "isReferenceReturned"
        /\ end > 0
        /\ Len(input) >= 4
        /\ SubSeq(input, 1, 4) = <<"[", "a", "]", ":">>
        /\ open < Len(input)
        /\ At(input, open) = "<"
        /\ stop - 1 > open + 1
        /\ At(input, stop - 1) = ">")
       => /\ <<"a">> \in DOMAIN refs
          /\ refs[<<"a">>].link = Slice(input, open + 1, stop - 1)

\* C3: the reference table maps each case-folded label to the target and
\* title of the last accepted definition whose label folds to it, and has no
\* entry for any other label; this holds after every iteration of firstPass,
\* and so when it returns.
C3_LastDefinitionWins ==
    /\ DOMAIN refs = {Fold(defs[k].id) : k \in DOMAIN defs}
    /\ \A key \in DOMAIN refs :
        LET last == CHOOSE k \in DOMAIN defs :
                        /\ Fold(defs[k].id) = key
                        /\ \A j \in DOMAIN defs : Fold(defs[j].id) = key => j <= k
        IN refs[key] = [link |-> defs[last].link, title |-> defs[last].title]

\* C3 witness: firstPass has returned after two definitions whose labels
\* differ only in case and whose targets differ.
C3_Witness ==
    /\ pc = "secondPass"
    /\ Len(defs) = 2
    /\ defs[1].id # defs[2].id
    /\ Fold(defs[1].id) = Fold(defs[2].id)
    /\ defs[1].link # defs[2].link

\* C4: the output of firstPass never holds a "\r" and is empty or ends with
\* "\n"; when firstPass has returned without accepting a definition, the
\* output holds exactly one "\n" per logical line of the input.
C4_NormalizedNewlines ==
    /\ "\r" \notin Range(out)
    /\ out = <<>> \/ out[Len(out)] = "\n"
    /\ (pc = "secondPass" /\ defs = <<>>) => CountLF(out) = LogicalLines(input)

\* C4 witness: firstPass has returned, without a definition, from an input
\* with a "\r\n" pair, a lone "\r" and a last line without terminator.
C4_Witness ==
    /\ pc = "secondPass"
    /\ defs = <<>>
    /\ \E k \in DOMAIN input : CrLfAt(input, k - 1)
    /\ \E k \in DOMAIN input : input[k] = "\r" /\ ~CrLfAt(input, k - 1)
    /\ input[Len(input)] \notin {"\n", "\r"}

\* C5: isReference takes a title as terminated only by the closing delimiter
\* that matches its opening delimiter.
C5_MatchingTitleDelimiter ==
    \A k \in DOMAIN defs :
        defs[k].close # "" => Closes(defs[k].open, defs[k].close)

C7_ReturnsOnlyAtDepthZero ==
    /\ pc \in {"firstPass", "secondPass"} => nesting = 0
    /\ pc = "returned" => nesting = 0
    /\ pc = "panicNesting" => nesting # 0

\* C7 witness: Markdown has returned the output of the header slot, of a block
\* parser that went down and came back up, and of the footer slot.
C7_Witness ==
    /\ pc = "returned"
    /\ moved
    /\ output = <<"DocumentHeader", "parseBlock", "DocumentFooter">>

\* C8: isReference returns normally on every data, with a result between 0
\* and len(data); no index expression runs out of range.
C8_NoRunTimeFailure ==
    /\ pc # "panicIndex"
    /\ pc = "isReferenceReturned" => (0 <= end /\ end <= Len(input))

\* C9: the stored title is not empty only when the returned length covers the
\* line the title was taken from; a title that is opened but not closed
\* leaves the reference with an empty title.
C9_TitleOnlyFromConsumedLine ==
    \A k \in DOMAIN defs :
        /\ defs[k].title # <<>> => defs[k].ret >= defs[k].titleOffset + Len(defs[k].title)
        /\ (defs[k].open # "" /\ defs[k].close = "") => defs[k].title = <<>>

\* C10: every iteration of the scan loop of firstPass moves beg forward,
\* never past len(input), and goes on with the loop; with the input used up,
\* the loop exits and firstPass returns.
C10_LoopAdvancesAndExits ==
    [][pc = "firstPass" =>
        /\ beg < Len(input) =>
              (beg' > beg /\ beg' <= Len(input) /\ pc' = "firstPass")
        /\ beg >= Len(input) => (beg = Len(input) /\ pc' = "secondPass")]_vars

====
